---- MODULE Spec2Model ----
(***************************************************************************)
(* Model of app.py, the light-pollution backend: four upstream adapters,   *)
(* the metric aggregator, the inline classifier of /api/cities and         *)
(* /api/analyze, the historical projector and the HTTP handlers.           *)
(*                                                                         *)
(* Ratios are decimal fixed-point numbers in units of 0.0001: 0.65 is      *)
(* 6500, 0.015 is 150, 1 is 10000.  round(x, 3) therefore rounds to the    *)
(* nearest multiple of 10.  Arithmetic is exact; the binary rounding error *)
(* of Python floats (about 1e-16) is not represented.                      *)
(***************************************************************************)
EXTENDS Integers, Sequences, FiniteSets, TLC

VARIABLES http, unit

vars == <<http, unit>>

(***************************** bounds ***************************************)
\* longest event list the upstream feed answers with (the adapter keeps 3)
MaxUpstream == 4
\* largest near-earth-object count the upstream feed answers with
MaxAsteroids == 1
\* sampling step of random.uniform(-0.03, 0.03) in the HTTP handlers
NoiseStep == 152
\* sampling step of random.randint for the health score in the HTTP handlers
ScoreStep == 20
\* sampling step of the three random.randint / choice of get_mars_weather
MarsStep == 300
\* longest event list handed to the aggregator when it is called directly
MaxEvents == 24
\* sampling step of the noise when the aggregator is called directly
UnitNoiseStep == 7
\* sampling step of blue_ratio / current_blue / current_orange in direct calls
UnitRatioStep == 123

(***************************** helpers **************************************)
Min(a, b) == IF a < b THEN a ELSE b

Max(a, b) == IF a > b THEN a ELSE b

\* the values lo, lo+step, ... up to hi, and hi itself
Samples(lo, hi, step) == {lo + k * step : k \in 0..((hi - lo) \div step)} \cup {hi}

\* Python's round(x, 3) on a non-negative ratio (ties go to the even digit)
Round3(x) ==
    LET q == x \div 10
        r == x % 10
    IN IF r < 5 THEN 10 * q
       ELSE IF r > 5 THEN 10 * (q + 1)
       ELSE IF q % 2 = 0 THEN 10 * q ELSE 10 * (q + 1)

(***************************** reference table *****************************)
\* variant: the loop runs over a list that names cusco twice and arequipa never
CityOrder_duplicate == <<"lima", "huanuco", "cusco", "cusco">>

CityOrder == <<"lima", "huanuco", "cusco", "arequipa">>

PERU_CITIES ==
    [lima     |-> [name |-> "Lima Metropolitana", coords |-> <<-120464, -770428>>,
                   population |-> 11000000, region |-> "Lima"],
     huanuco  |-> [name |-> "Huanuco", coords |-> <<-99295, -762397>>,
                   population |-> 196000, region |-> "Huanuco"],
     cusco    |-> [name |-> "Cusco", coords |-> <<-135319, -719675>>,
                   population |-> 500000, region |-> "Cusco"],
     arequipa |-> [name |-> "Arequipa", coords |-> <<-164090, -715375>>,
                   population |-> 1100000, region |-> "Arequipa"]]

KnownIds == DOMAIN PERU_CITIES

\* identifiers a client may send that are not in the table
UnknownIds == {"puno", "LIMA"}

CityIds == KnownIds \cup UnknownIds

(***************************** upstream services ***************************)
\* what one outbound requests.get can do: answer 200, answer another status,
\* time out, or answer 200 with a body the adapter fails to parse
Outcomes == {"ok", "non200", "timeout", "exception"}

\* the i-th event of the upstream feed
UpstreamEvent(i) ==
    [title |-> i, geometry_date |-> <<i, "T00:00:00Z">>, category |-> "Wildfires"]

UpstreamEvents(n) == [i \in 1..n |-> UpstreamEvent(i)]

\* state of the four upstream services during one request
\* (a service that does not answer 200 delivers no payload)
Upstreams ==
    {up \in [apod    : Outcomes,
             eonet   : Outcomes, events : 0..MaxUpstream,
             imagery : Outcomes,
             neo     : Outcomes, count : 0..MaxAsteroids] :
        /\ (up.eonet # "ok" => up.events = 0)
        /\ (up.neo # "ok" => up.count = 0)}

\* the fields of Upstreams that describe one service
Fields(service) ==
    CASE service = "apod" -> {"apod"}
      [] service = "eonet" -> {"eonet", "events"}
      [] service = "imagery" -> {"imagery"}
      [] service = "neo" -> {"neo", "count"}

\* the upstream states a handler that calls only `services` depends on
Called(services) ==
    {[f \in UNION {Fields(s) : s \in services} |-> up[f]] : up \in Upstreams}

(***************************** adapters *************************************)
ApodData == [title |-> "APOD", url |-> "img", explanation |-> 250, date |-> "today"]

get_nasa_apod(up) ==
    IF up.apod = "ok"
    THEN [title |-> ApodData.title, url |-> ApodData.url,
          explanation |-> Min(ApodData.explanation, 200) + 3,
          date |-> ApodData.date, success |-> TRUE]
    ELSE [success |-> FALSE]

\* variant: the events[:3] slice is missing
get_nasa_events_unsliced(up) ==
    IF up.eonet = "ok"
    THEN LET events == UpstreamEvents(up.events)
         IN [i \in 1..Len(events) |->
                [title |-> events[i].title,
                 date |-> events[i].geometry_date[1],
                 category |-> events[i].category]]
    ELSE <<>>

get_nasa_events(up) ==
    IF up.eonet = "ok"
    THEN LET events == UpstreamEvents(up.events)
         IN [i \in 1..Min(3, Len(events)) |->
                [title |-> events[i].title,
                 date |-> events[i].geometry_date[1],
                 category |-> events[i].category]]
    ELSE <<>>

\* variant: the status_code == 200 test is missing
get_earth_imagery_unchecked(up, city_coords) ==
    IF up.imagery \in {"ok", "non200"}
    THEN [available |-> TRUE, url |-> <<city_coords[2], city_coords[1]>>]
    ELSE [available |-> FALSE]

get_earth_imagery(up, city_coords) ==
    IF up.imagery = "ok"
    THEN [available |-> TRUE, url |-> <<city_coords[2], city_coords[1]>>]
    ELSE [available |-> FALSE]

get_asteroid_data(up) ==
    IF up.neo = "ok"
    THEN [count |-> up.count, date |-> "today", success |-> TRUE]
    ELSE [success |-> FALSE, count |-> 0]

Seasons == <<"Primavera", "Verano", "Otono", "Invierno">>

\* every record get_mars_weather can return (sampled)
get_mars_weather ==
    [temp : Samples(-80, -20, MarsStep),
     season : {Seasons[i] : i \in Samples(1, Len(Seasons), MarsStep)},
     pressure : Samples(600, 900, MarsStep), success : {TRUE}]

(***************************** metric aggregator ****************************)
base_data ==
    [lima     |-> [base |-> 6500, growth |-> 400],
     huanuco  |-> [base |-> 3800, growth |-> 100],
     cusco    |-> [base |-> 4500, growth |-> 300],
     arequipa |-> [base |-> 5500, growth |-> 350]]

base_default == [base |-> 5000, growth |-> 200]

\* variant: an unknown identifier falls back to the first entry of the table
base_get_first(city_id) ==
    IF city_id \in DOMAIN base_data THEN base_data[city_id] ELSE base_data["lima"]

\* base_data.get(city_id, {"base": 0.5, "growth": 0.02})
base_get(city_id) ==
    IF city_id \in DOMAIN base_data THEN base_data[city_id] ELSE base_default

\* random.uniform(-0.03, 0.03), sampled every `step`
weather_impacts(step) == Samples(-300, 300, step)

\* variant: the min(0.8, ...) of the clamp is missing
calculate_pollution_unclamped(city_id, nasa_events, weather_impact) ==
    LET base == base_get(city_id)
        event_impact == Len(nasa_events) * 150
        blue_ratio == Max(2000, base.base + event_impact + weather_impact)
        orange_ratio == 10000 - blue_ratio
    IN <<blue_ratio, orange_ratio>>

\* calculate_pollution_from_nasa with the drawn noise made explicit;
\* returns <<blue_ratio, orange_ratio>>
calculate_pollution_from_nasa(city_id, nasa_events, weather_impact) ==
    LET base == base_get(city_id)
        event_impact == Len(nasa_events) * 150
        blue_ratio == Max(2000, Min(8000, base.base + event_impact + weather_impact))
        orange_ratio == 10000 - blue_ratio
    IN <<blue_ratio, orange_ratio>>

(***************************** classifier ***********************************)
\* random.randint(lo, hi), sampled every `step`
randint(lo, hi, step) == Samples(lo, hi, step)

\* the if / elif / else of get_cities: every (status, score) it can produce
\* (the status labels are written without the accent of the source)
cities_classify(blue_ratio, step) ==
    IF blue_ratio > 6000
    THEN {[status |-> "CRITICO", score |-> s] : s \in randint(20, 40, step)}
    ELSE IF blue_ratio > 4500
    THEN {[status |-> "MODERADO", score |-> s] : s \in randint(41, 69, step)}
    ELSE {[status |-> "SALUDABLE", score |-> s] : s \in randint(70, 85, step)}

\* variant: the first test is blue_ratio >= 0.6
analyze_classify_inclusive(blue_ratio, step) ==
    IF blue_ratio >= 6000
    THEN {[status |-> "CRITICO", health_score |-> s] : s \in randint(20, 40, step)}
    ELSE IF blue_ratio > 4500
    THEN {[status |-> "MODERADO", health_score |-> s] : s \in randint(41, 69, step)}
    ELSE {[status |-> "SALUDABLE", health_score |-> s] : s \in randint(70, 85, step)}

\* the if / elif / else of analyze_city
analyze_classify(blue_ratio, step) ==
    IF blue_ratio > 6000
    THEN {[status |-> "CRITICO", health_score |-> s] : s \in randint(20, 40, step)}
    ELSE IF blue_ratio > 4500
    THEN {[status |-> "MODERADO", health_score |-> s] : s \in randint(41, 69, step)}
    ELSE {[status |-> "SALUDABLE", health_score |-> s] : s \in randint(70, 85, step)}

(***************************** historical projector ************************)
years == <<2020, 2021, 2022, 2023>>

\* variant: lima's trend is typed 0.4
trends_typo == [lima |-> 4000, huanuco |-> 100, cusco |-> 300, arequipa |-> 350]

trends == [lima |-> 400, huanuco |-> 100, cusco |-> 300, arequipa |-> 350]

\* trends.get(city_id, 0.02)
trends_get(city_id) == IF city_id \in DOMAIN trends THEN trends[city_id] ELSE 200

\* variant: years_ago counts from the first year instead of back from the last
projected_blue_forward(city_id, current_blue, year) ==
    Max(1000, current_blue - ((year - 2020) * trends_get(city_id)))

\* the two values of one loop iteration, before rounding
projected_blue(city_id, current_blue, year) ==
    Max(1000, current_blue - ((2023 - year) * trends_get(city_id)))

projected_orange(city_id, current_orange, year) ==
    Min(8000, current_orange + ((2023 - year) * trends_get(city_id)))

generate_historical_data(city_id, current_blue, current_orange) ==
    [i \in 1..Len(years) |->
        [year |-> years[i],
         blue_ratio |-> Round3(projected_blue(city_id, current_blue, years[i])),
         orange_ratio |-> Round3(projected_orange(city_id, current_orange, years[i]))]]

(***************************** recommendations ******************************)
generate_recommendations(status, city_name) ==
    IF status = "CRITICO"
    THEN << <<"URGENTE: Reemplazar 50% de LED azules en", city_name>>,
            <<"Implementar norma tecnica NASA-compatible">>,
            <<"Crear zonas de proteccion de cielo oscuro">>,
            <<"Sistema de monitoreo continuo con datos satelitales">> >>
    ELSE IF status = "MODERADO"
    THEN << <<"Plan de transicion a LED NASA-recomendados en", city_name>>,
            <<"Monitoreo mensual con Earth Imagery API">>,
            <<"Educacion sobre estandares internacionales">>,
            <<"Participar en programa NASA 'Dark Sky Cities'">> >>
    ELSE << <<"Excelente!", city_name, "cumple estandares NASA">>,
            <<"Mantener certificacion 'NASA Dark Sky Friendly'">>,
            <<"Compartir practicas con Red Global NASA">>,
            <<"Implementar observatorio ciudadano">> >>

(***************************** handlers' tests ******************************)
\* variant: the test is made against a list that lacks cusco
city_known_stale(city_id) == city_id \in {"lima", "huanuco", "arequipa"}

\* analyze_city: city_id in PERU_CITIES
city_known(city_id) == city_id \in DOMAIN PERU_CITIES

\* variant: the test is len(nasa_events) >= 0
eonet_operational_inclusive(nasa_events) == Len(nasa_events) >= 0

\* api_status: 'eonet': len(nasa_events) > 0
eonet_operational(nasa_events) == Len(nasa_events) > 0

(***************************** state ****************************************)
Idle == [route |-> "idle"]

Init == http = Idle /\ unit = Idle

\* GET /api/status
api_status ==
    /\ http.route = "idle"
    /\ \E up \in Called({"eonet", "apod", "neo"}), mars_weather \in get_mars_weather :
         LET nasa_events == get_nasa_events(up)
             apod_data == get_nasa_apod(up)
             asteroid_data == get_asteroid_data(up)
         IN http' = [route |-> "/api/status", up |-> up, code |-> 200,
                     body |-> [nasa_connected |-> TRUE,
                               apis_operational |->
                                  [apod |-> apod_data.success,
                                   eonet |-> eonet_operational(nasa_events),
                                   asteroids |-> asteroid_data.success,
                                   mars_weather |-> mars_weather.success],
                               stats |->
                                  [events_today |-> Len(nasa_events),
                                   asteroids_near_earth |-> asteroid_data.count,
                                   mars_temperature |-> mars_weather.temp]]]
    /\ UNCHANGED unit

\* every sequence whose i-th element is drawn from sets[i]
RECURSIVE Draws(_)
Draws(sets) ==
    IF Len(sets) = 0 THEN {<<>>}
    ELSE {Append(d, x) : d \in Draws(SubSeq(sets, 1, Len(sets) - 1)),
                         x \in sets[Len(sets)]}

\* GET /api/cities: the loop over PERU_CITIES.items() draws one noise value and
\* one score per city
get_cities ==
    /\ http.route = "idle"
    /\ \E up \in Called({"eonet"}) :
         LET nasa_events == get_nasa_events(up)
             N == Len(CityOrder)
         IN \E weather \in [1..N -> weather_impacts(NoiseStep)] :
              LET blue == [i \in 1..N |->
                             calculate_pollution_from_nasa(CityOrder[i], nasa_events,
                                                           weather[i])[1]]
              IN \E c \in Draws([i \in 1..N |-> cities_classify(blue[i], ScoreStep)]) :
                   http' =
                     [route |-> "/api/cities", up |-> up, code |-> 200,
                      nasa_events |-> nasa_events, blue |-> blue,
                      body |-> [i \in 1..N |->
                                 [id |-> CityOrder[i],
                                  name |-> PERU_CITIES[CityOrder[i]].name,
                                  region |-> PERU_CITIES[CityOrder[i]].region,
                                  status |-> c[i].status,
                                  health_score |-> c[i].score,
                                  events_affecting |-> Len(nasa_events)]]]
    /\ UNCHANGED unit

\* GET /api/analyze/<city_id>
analyze_city ==
    /\ http.route = "idle"
    /\ \E city_id \in CityIds, up \in Upstreams :
         IF ~city_known(city_id)
         THEN http' = [route |-> "/api/analyze", city_id |-> city_id, up |-> up,
                       code |-> 404, body |-> [error |-> "Ciudad no encontrada"]]
         ELSE \E mars_weather \in get_mars_weather,
                 weather_impact \in weather_impacts(NoiseStep) :
              LET city_data == PERU_CITIES[city_id]
                  nasa_events == get_nasa_events(up)
                  apod_data == get_nasa_apod(up)
                  earth_imagery == get_earth_imagery(up, city_data.coords)
                  asteroid_data == get_asteroid_data(up)
                  ratios == calculate_pollution_from_nasa(city_id, nasa_events,
                                                          weather_impact)
                  blue_ratio == ratios[1]
                  orange_ratio == ratios[2]
              IN \E c \in analyze_classify(blue_ratio, ScoreStep) :
                   http' = [route |-> "/api/analyze", city_id |-> city_id, up |-> up,
                            code |-> 200,
                            blue_ratio |-> blue_ratio, orange_ratio |-> orange_ratio,
                            body |->
                              [city_info |->
                                 [name |-> city_data.name, region |-> city_data.region,
                                  population |-> city_data.population,
                                  coordinates |-> city_data.coords],
                               pollution_analysis |->
                                 [status |-> c.status, health_score |-> c.health_score,
                                  blue_ratio |-> Round3(blue_ratio),
                                  orange_ratio |-> Round3(orange_ratio)],
                               nasa_data |->
                                 [apod |-> apod_data, events |-> nasa_events,
                                  earth_imagery |-> earth_imagery,
                                  asteroids |-> asteroid_data,
                                  mars_weather |-> mars_weather],
                               historical_data |->
                                 generate_historical_data(city_id, blue_ratio,
                                                          orange_ratio),
                               recommendations |->
                                 generate_recommendations(c.status, city_data.name)]]
    /\ UNCHANGED unit

\* GET /api/nasa/apod
nasa_apod ==
    /\ http.route = "idle"
    /\ \E up \in Called({"apod"}) :
         http' = [route |-> "/api/nasa/apod", up |-> up, code |-> 200,
                  body |-> get_nasa_apod(up)]
    /\ UNCHANGED unit

\* GET /api/nasa/events
nasa_events ==
    /\ http.route = "idle"
    /\ \E up \in Called({"eonet"}) :
         http' = [route |-> "/api/nasa/events", up |-> up, code |-> 200,
                  body |-> get_nasa_events(up)]
    /\ UNCHANGED unit

\* GET /api/nasa/asteroids
nasa_asteroids ==
    /\ http.route = "idle"
    /\ \E up \in Called({"neo"}) :
         http' = [route |-> "/api/nasa/asteroids", up |-> up, code |-> 200,
                  body |-> get_asteroid_data(up)]
    /\ UNCHANGED unit

\* the response is sent; the process keeps nothing of the request
Deliver ==
    /\ http.route # "idle"
    /\ http' = Idle
    /\ UNCHANGED unit

(***************************** direct calls *********************************)
\* a list of n events, as a caller other than the adapter may pass
EventList(n) ==
    [i \in 1..n |-> [title |-> i, date |-> i, category |-> "Wildfires"]]

\* ratios a direct caller passes: a grid over [lo, hi] plus the neighbourhood
\* of the two classification thresholds
Ratios(lo, hi) ==
    Samples(lo, hi, UnitRatioStep) \cup {4499, 4500, 4501, 5999, 6000, 6001}

\* calculate_pollution_from_nasa(city_id, nasa_events)
call_calculate_pollution_from_nasa ==
    /\ unit.route = "idle"
    /\ \E city_id \in CityIds, n \in 0..MaxEvents,
          weather_impact \in weather_impacts(UnitNoiseStep) :
         unit' = [route |-> "calculate_pollution_from_nasa", city_id |-> city_id,
                  nasa_events |-> n, weather_impact |-> weather_impact,
                  result |-> calculate_pollution_from_nasa(city_id, EventList(n),
                                                           weather_impact)]
    /\ UNCHANGED http

\* the classification block of get_cities on a given blue_ratio
call_cities_classify ==
    /\ unit.route = "idle"
    /\ \E blue_ratio \in Ratios(2000, 8000) :
         \E c \in cities_classify(blue_ratio, 1) :
            unit' = [route |-> "classify", endpoint |-> "/api/cities",
                     blue_ratio |-> blue_ratio,
                     status |-> c.status, health_score |-> c.score]
    /\ UNCHANGED http

\* the classification block of analyze_city on a given blue_ratio
call_analyze_classify ==
    /\ unit.route = "idle"
    /\ \E blue_ratio \in Ratios(2000, 8000) :
         \E c \in analyze_classify(blue_ratio, 1) :
            unit' = [route |-> "classify", endpoint |-> "/api/analyze",
                     blue_ratio |-> blue_ratio,
                     status |-> c.status, health_score |-> c.health_score]
    /\ UNCHANGED http

\* generate_historical_data(city_id, current_blue, current_orange) on any pair
call_generate_historical_data ==
    /\ unit.route = "idle"
    /\ \E city_id \in CityIds, current_blue \in Ratios(0, 10000) :
         \E current_orange \in Samples(0, 10000, UnitRatioStep)
                                 \cup {10000 - current_blue} :
            unit' = [route |-> "generate_historical_data", city_id |-> city_id,
                     current_blue |-> current_blue, current_orange |-> current_orange,
                     result |-> generate_historical_data(city_id, current_blue,
                                                         current_orange)]
    /\ UNCHANGED http

\* the call returns
Return ==
    /\ unit.route # "idle"
    /\ unit' = Idle
    /\ UNCHANGED http

Next ==
    \/ api_status
    \/ get_cities
    \/ analyze_city
    \/ nasa_apod
    \/ nasa_events
    \/ nasa_asteroids
    \/ Deliver

Spec == Init /\ [][Next]_vars

\* the functions exercised directly, outside any request
NextUnit ==
    \/ call_calculate_pollution_from_nasa
    \/ call_cities_classify
    \/ call_analyze_classify
    \/ call_generate_historical_data
    \/ Return

SpecUnit == Init /\ [][NextUnit]_vars

(***************************** properties ***********************************)
\* the clamp of a ratio to [0.2, 0.8], written out for the properties
Clamp(x) == IF x < 2000 THEN 2000 ELSE IF x > 8000 THEN 8000 ELSE x

\* the per-city constants as the documentation lists them
DocBase(city_id) ==
    CASE city_id = "lima" -> 6500 [] city_id = "huanuco" -> 3800
      [] city_id = "cusco" -> 4500 [] city_id = "arequipa" -> 5500
      [] OTHER -> 5000

DocTrend(city_id) ==
    CASE city_id = "lima" -> 400 [] city_id = "huanuco" -> 100
      [] city_id = "cusco" -> 300 [] city_id = "arequipa" -> 350
      [] OTHER -> 200

DocIds == {"lima", "huanuco", "cusco", "arequipa"}

\* C1: for every city identifier, every event list and every noise value in
\* [-0.03, 0.03], calculate_pollution_from_nasa returns (blue, orange) with
\* 0.2 <= blue <= 0.8 and orange = 1 - blue.
C1_RatiosClamped ==
    unit.route = "calculate_pollution_from_nasa" =>
        /\ 2000 <= unit.result[1]
        /\ unit.result[1] <= 8000
        /\ unit.result[2] = 10000 - unit.result[1]

\* the upper clamp has acted on a known and on an unknown city
C1_Witness ==
    /\ unit.route = "calculate_pollution_from_nasa"
    /\ unit.city_id = "puno"
    /\ 5000 + 150 * unit.nasa_events + unit.weather_impact > 8000
    /\ unit.result = <<8000, 2000>>

\* C2: the classification of /api/cities and of /api/analyze partitions
\* blue_ratio: > 0.6 CRITICO with score in [20,40]; in (0.45, 0.6] MODERADO
\* with score in [41,69]; <= 0.45 SALUDABLE with score in [70,85]; every
\* blue_ratio in [0.2, 0.8] gets exactly one status in both endpoints.
C2_Partition ==
    unit.route = "classify" =>
        /\ (unit.blue_ratio > 6000 =>
              unit.status = "CRITICO" /\ unit.health_score \in 20..40)
        /\ (unit.blue_ratio > 4500 /\ unit.blue_ratio <= 6000 =>
              unit.status = "MODERADO" /\ unit.health_score \in 41..69)
        /\ (unit.blue_ratio <= 4500 =>
              unit.status = "SALUDABLE" /\ unit.health_score \in 70..85)
        /\ Cardinality({c.status : c \in cities_classify(unit.blue_ratio, 1)}) = 1
        /\ Cardinality({c.status : c \in analyze_classify(unit.blue_ratio, 1)}) = 1
        /\ {c.status : c \in cities_classify(unit.blue_ratio, 1)}
             = {c.status : c \in analyze_classify(unit.blue_ratio, 1)}
        /\ {c.score : c \in cities_classify(unit.blue_ratio, 1)}
             = {c.health_score : c \in analyze_classify(unit.blue_ratio, 1)}

\* /api/analyze has classified the threshold 0.6 itself, with the top score
C2_Witness ==
    /\ unit.route = "classify"
    /\ unit.endpoint = "/api/analyze"
    /\ unit.blue_ratio = 6000
    /\ unit.status = "MODERADO"
    /\ unit.health_score = 69

\* C3: /api/analyze/<city_id> answers 404 {"error": "Ciudad no encontrada"}
\* exactly for the identifiers outside {lima, huanuco, cusco, arequipa},
\* whatever the upstream services do.
C3_NotFound ==
    http.route = "/api/analyze" =>
        /\ (http.city_id \notin DocIds <=> http.code = 404)
        /\ (http.code = 404 => http.body = [error |-> "Ciudad no encontrada"])
        /\ (http.code # 404 => http.code = 200)

\* an unknown city was refused while every upstream service was failing
C3_Witness ==
    /\ http.route = "/api/analyze"
    /\ http.city_id = "LIMA"
    /\ http.code = 404
    /\ http.up.apod = "timeout" /\ http.up.eonet = "non200"
    /\ http.up.imagery = "exception" /\ http.up.neo = "timeout"

\* C4: whatever the four upstream calls do, /api/analyze/<known city>
\* answers 200; a failed call shows as its sentinel record (apod
\* {success: false}, events [], earth_imagery {available: false}, asteroids
\* {success: false, count: 0}) and leaves the other adapters' records as
\* their own call decides them.
C4_Degrades ==
    (http.route = "/api/analyze" /\ http.city_id \in DocIds) =>
        LET up == http.up
            nasa_data == http.body.nasa_data
        IN /\ http.code = 200
           /\ (up.apod # "ok" => nasa_data.apod = [success |-> FALSE])
           /\ (up.apod = "ok" => nasa_data.apod.success = TRUE)
           /\ (up.eonet # "ok" => nasa_data.events = <<>>)
           /\ (up.eonet = "ok" => Len(nasa_data.events) = Min(3, up.events))
           /\ (up.imagery # "ok" => nasa_data.earth_imagery = [available |-> FALSE])
           /\ (up.imagery = "ok" => nasa_data.earth_imagery.available = TRUE)
           /\ (up.neo # "ok" => nasa_data.asteroids = [success |-> FALSE, count |-> 0])
           /\ (up.neo = "ok" =>
                 /\ nasa_data.asteroids.success = TRUE
                 /\ nasa_data.asteroids.count = up.count)
           /\ nasa_data.mars_weather.success = TRUE

\* three calls failed in three different ways and the fourth succeeded
C4_Witness ==
    /\ http.route = "/api/analyze"
    /\ http.city_id = "cusco"
    /\ http.code = 200
    /\ http.up.apod = "timeout" /\ http.up.imagery = "non200"
    /\ http.up.neo = "exception"
    /\ http.up.eonet = "ok" /\ http.up.events = 2
    /\ Len(http.body.nasa_data.events) = 2
    /\ http.body.nasa_data.apod = [success |-> FALSE]

\* C5 as stated: generate_historical_data returns 4 entries for the years
\* 2020..2023 in ascending order, the entry of year y holding exactly
\* blue = max(0.1, current_blue - (2023 - y) * trend) and
\* orange = min(0.8, current_orange + (2023 - y) * trend), so that the 2023
\* entry carries the current values, for every current pair.
C5_AsStated ==
    unit.route = "generate_historical_data" =>
        LET h == unit.result
            t == DocTrend(unit.city_id)
        IN /\ Len(h) = 4
           /\ \A i \in 1..4 :
                /\ h[i].year = 2019 + i
                /\ h[i].blue_ratio = Max(1000, unit.current_blue - (4 - i) * t)
                /\ h[i].orange_ratio = Min(8000, unit.current_orange + (4 - i) * t)
           /\ h[4].blue_ratio = unit.current_blue
           /\ h[4].orange_ratio = unit.current_orange

\* C5 (amended): the 4 entries are for 2020..2023 in ascending order; the
\* entry of year y holds round(max(0.1, current_blue - (2023 - y) * trend), 3)
\* and round(min(0.8, current_orange + (2023 - y) * trend), 3); the 2023 entry
\* holds round(max(0.1, current_blue), 3) and round(min(0.8, current_orange), 3);
\* going back in time blue never increases and orange never decreases.
C5_Rounded ==
    unit.route = "generate_historical_data" =>
        LET h == unit.result
            t == DocTrend(unit.city_id)
        IN /\ Len(h) = 4
           /\ \A i \in 1..4 :
                /\ h[i].year = 2019 + i
                /\ h[i].blue_ratio = Round3(Max(1000, unit.current_blue - (4 - i) * t))
                /\ h[i].orange_ratio = Round3(Min(8000, unit.current_orange + (4 - i) * t))
           /\ h[4].blue_ratio = Round3(Max(1000, unit.current_blue))
           /\ h[4].orange_ratio = Round3(Min(8000, unit.current_orange))
           /\ \A i \in 1..3 :
                /\ h[i].blue_ratio <= h[i + 1].blue_ratio
                /\ h[i].orange_ratio >= h[i + 1].orange_ratio

\* a projection of a pair inside the clamps whose 2023 entry differs from the
\* current values by rounding alone, and whose 2020 entry is not clamped
C5_Witness ==
    /\ unit.route = "generate_historical_data"
    /\ unit.city_id = "arequipa"
    /\ unit.current_blue >= 1000 /\ unit.current_orange <= 8000
    /\ unit.result[4].blue_ratio # unit.current_blue
    /\ unit.result[1].blue_ratio > 1000
    /\ unit.result[1].blue_ratio < unit.result[4].blue_ratio

\* C6: /api/cities returns exactly 4 entries, one per reference city, each
\* with status CRITICO, MODERADO or SALUDABLE, whether or not the event call
\* succeeds; all entries carry the same events_affecting, the length of the
\* one event list fetched for the request.
C6_FourCities ==
    http.route = "/api/cities" =>
        /\ http.code = 200
        /\ Len(http.body) = 4
        /\ \A id \in DocIds :
             Cardinality({i \in 1..Len(http.body) : http.body[i].id = id}) = 1
        /\ \A i \in 1..Len(http.body) :
             /\ http.body[i].status \in {"CRITICO", "MODERADO", "SALUDABLE"}
             /\ http.body[i].events_affecting = Len(http.nasa_events)
        /\ Len(http.nasa_events)
             = (IF http.up.eonet = "ok" THEN Min(3, http.up.events) ELSE 0)

\* the event call timed out and the four cities were still listed
C6_Witness ==
    /\ http.route = "/api/cities"
    /\ http.up.eonet = "timeout"
    /\ Len(http.body) = 4
    /\ http.body[4].id = "arequipa"
    /\ http.body[4].events_affecting = 0

\* C7: the aggregator computes clamp(base + 0.015 * event_count + noise) with
\* base 0.65 / 0.38 / 0.45 / 0.55 for lima / huanuco / cusco / arequipa and
\* 0.5 for any other identifier; the projector uses trend 0.02 for any other
\* identifier; the growth listed beside each base equals the projector's
\* trend for that city.
C7_Defaults ==
    /\ unit.route = "calculate_pollution_from_nasa" =>
          unit.result[1] = Clamp(DocBase(unit.city_id) + 150 * unit.nasa_events
                                 + unit.weather_impact)
    /\ (unit.route = "generate_historical_data" /\ unit.city_id \notin DocIds) =>
          \A i \in 1..4 :
             /\ unit.result[i].blue_ratio
                  = Round3(Max(1000, unit.current_blue - (4 - i) * 200))
             /\ unit.result[i].orange_ratio
                  = Round3(Min(8000, unit.current_orange + (4 - i) * 200))
    /\ unit.route \in {"calculate_pollution_from_nasa", "generate_historical_data"} =>
          /\ unit.city_id \in DocIds =>
                base_get(unit.city_id).growth = trends_get(unit.city_id)
          /\ unit.city_id \notin DocIds =>
                base_get(unit.city_id).growth = 200 /\ trends_get(unit.city_id) = 200

\* an unknown city, two events, no clamp: 0.5 + 0.03 + noise
C7_Witness ==
    /\ unit.route = "calculate_pollution_from_nasa"
    /\ unit.city_id = "puno"
    /\ unit.nasa_events = 2
    /\ unit.weather_impact = -300
    /\ unit.result = <<5000, 5000>>

\* C8: in every /api/analyze response for a reference city neither clamp of
\* the projector is active: for each of the 4 points
\* blue = current_blue - years_ago * trend >= 0.1 and
\* orange = current_orange + years_ago * trend <= 0.8, so before rounding
\* blue + orange = 1, blue is in [0.1, current_blue] and orange in
\* [current_orange, 0.8].
C8_ClampsIdle ==
    (http.route = "/api/analyze" /\ http.code = 200) =>
        \A i \in 1..4 :
           LET t == DocTrend(http.city_id)
               blue == projected_blue(http.city_id, http.blue_ratio, 2019 + i)
               orange == projected_orange(http.city_id, http.orange_ratio, 2019 + i)
           IN /\ blue = http.blue_ratio - (4 - i) * t
              /\ orange = http.orange_ratio + (4 - i) * t
              /\ blue >= 1000 /\ blue <= http.blue_ratio
              /\ orange <= 8000 /\ orange >= http.orange_ratio
              /\ blue + orange = 10000
              /\ http.body.historical_data[i].year = 2019 + i
              /\ http.body.historical_data[i].blue_ratio = Round3(blue)
              /\ http.body.historical_data[i].orange_ratio = Round3(orange)

\* lima at its lowest blue_ratio (no event, noise -0.03): 0.62 now, 0.50 in 2020
C8_Witness ==
    /\ http.route = "/api/analyze"
    /\ http.code = 200
    /\ http.city_id = "lima"
    /\ http.blue_ratio = 6200
    /\ http.body.historical_data[1] =
          [year |-> 2020, blue_ratio |-> 5000, orange_ratio |-> 5000]

\* the status and score of one city in a response of /api/cities or /api/analyze
C9_Allowed(city_id, status, score) ==
    /\ city_id = "lima" => status = "CRITICO" /\ score \in 20..40
    /\ city_id = "huanuco" => status # "CRITICO"
    /\ city_id = "cusco" => status # "CRITICO"
    /\ city_id = "arequipa" => status # "SALUDABLE"

\* C9: the event adapter returns at most 3 events, so lima is always CRITICO
\* with score in [20,40], huanuco and cusco are never CRITICO and arequipa
\* is never SALUDABLE, in /api/cities and in /api/analyze.
C9_StatusByBase ==
    /\ http.route = "/api/cities" =>
          /\ Len(http.nasa_events) <= 3
          /\ \A i \in 1..Len(http.body) :
                C9_Allowed(http.body[i].id, http.body[i].status,
                           http.body[i].health_score)
    /\ (http.route = "/api/analyze" /\ http.code = 200) =>
          /\ Len(http.body.nasa_data.events) <= 3
          /\ C9_Allowed(http.city_id, http.body.pollution_analysis.status,
                         http.body.pollution_analysis.health_score)
    /\ http.route \in {"/api/nasa/events"} => Len(http.body) <= 3

\* the feed answered more than 3 events, the adapter kept 3, and cusco at
\* its highest blue_ratio (0.45 + 0.045 + 0.03) is MODERADO
C9_Witness ==
    /\ http.route = "/api/cities"
    /\ http.up.events > 3
    /\ Len(http.nasa_events) = 3
    /\ http.blue[3] = 5250
    /\ http.body[3].status = "MODERADO"
    /\ http.body[1].status = "CRITICO"

\* C10: /api/status answers 200 with the four flags and the three stats;
\* apod and asteroids equal the success flag of their call, mars_weather is
\* true, and eonet equals (events_today > 0): a successful event call that
\* returns an empty list is reported as eonet = false, like a failed call.
C10_StatusFlags ==
    http.route = "/api/status" =>
        LET ops == http.body.apis_operational
            stats == http.body.stats
        IN /\ http.code = 200
           /\ DOMAIN ops = {"apod", "eonet", "asteroids", "mars_weather"}
           /\ DOMAIN stats = {"events_today", "asteroids_near_earth",
                               "mars_temperature"}
           /\ ops.apod = (http.up.apod = "ok")
           /\ ops.asteroids = (http.up.neo = "ok")
           /\ ops.mars_weather = TRUE
           /\ ops.eonet = (stats.events_today > 0)
           /\ stats.events_today
                = (IF http.up.eonet = "ok" THEN Min(3, http.up.events) ELSE 0)
           /\ stats.asteroids_near_earth
                = (IF http.up.neo = "ok" THEN http.up.count ELSE 0)

\* the event call succeeded with an empty list and eonet is reported false
C10_Witness ==
    /\ http.route = "/api/status"
    /\ http.up.eonet = "ok"
    /\ http.up.events = 0
    /\ http.body.apis_operational.eonet = FALSE
    /\ http.body.apis_operational.apod = TRUE
====
